---- MODULE Spec2Model ----
(***************************************************************************)
(* Page-fitting / pagination engine of gd-journal.                         *)
(*                                                                         *)
(*   book/classes.py   Show.to_page_friendly_set_groupings (count-based    *)
(*                     balanced multi-page grouping) and classify_layout   *)
(*   book/generate.py  height estimator, metric classifier, greedy single  *)
(*                     split and the spread renderer                       *)
(*   book/parse_shows.py, book/generate.py                                 *)
(*                     the two parsers that build the shows from the rows  *)
(*                     of the dataset                                      *)
(*                                                                         *)
(* A Set is a record [label, songs]; the label is the position of the set  *)
(* in the show and gives the set its identity, songs is the sequence of    *)
(* its song lines.  A Show is a record [notes, sets] where notes is the    *)
(* length of the notes string (0: no notes).                               *)
(***************************************************************************)
EXTENDS Integers, Sequences, FiniteSets, TLC

(* ---- bounds of the model ---- *)
\* sets per show
MaxSets == 3
\* songs per set of a show handed to classes.py
MaxSongs == 21
\* songs per set and songs per show of a show handed to generate.py
MaxSetSongs == 26
MaxShowSongs == 31
\* wrapped lines of the notes of a show
MaxNoteLines == 1
\* sets per show of the long shows
MaxLongSets == 5
\* rows of a dataset handed to the parsers
MaxRows == 3

(* ---- literals of classes.py ---- *)
PAGE_LINES == 20
GROUP_CEILING == 20
BALANCE_SLACK == 5

(* ---- page geometry of generate.py ---- *)
PAGE_CONTENT_HEIGHT == 500
HEADER_HEIGHT == 65
NOTES_BASE_HEIGHT == 25
NOTES_CHARS_PER_LINE == 55
LINE_HEIGHT == 18
SET_LABEL_HEIGHT == 22
SET_GAP == 12

VARIABLES
  show,        \* the Show being processed
  groupings,   \* result of the last classes.Show.to_page_friendly_set_groupings
  prev_groupings,  \* result of the call before the last one
  layout,      \* result of the last classes.Show.classify_layout
  gen_layout,  \* result of the last generate.Show.classify_layout
  rendered,    \* result of the last generate.render_show_html
  rows,        \* the rows of the dataset handed to the parsers
  book_shows,  \* result of parse_shows.shows_from_lines(rows)
  gen_shows    \* result of generate.parse_shows on a file holding rows

vars == <<show, groupings, prev_groupings, layout, gen_layout, rendered,
          rows, book_shows, gen_shows>>

\* the variables of the ingestion step
ingest_vars == <<rows, book_shows, gen_shows>>

NotCalled == [status |-> "not_called"]

Returned(v) == [status |-> "returned", value |-> v]

(* ---- data model ---- *)
NewSet(label, n) == [label |-> label, songs |-> [k \in 1..n |-> k]]

SetLen(s) == Len(s.songs)

RECURSIVE SumSongs(_)
SumSongs(group) ==
  IF group = <<>> THEN 0 ELSE SetLen(Head(group)) + SumSongs(Tail(group))

ShowLen(sh) == SumSongs(sh.sets)

(* ---- classes.py: Show.to_page_friendly_set_groupings ---- *)

\* variant: a page is counted only once the line count exceeds 20
RECURSIVE SimulatePages_Strict(_, _, _, _)
SimulatePages_Strict(sets, i, num_pages, curr_lines) ==
  IF i > Len(sets) THEN num_pages
  ELSE IF curr_lines + SetLen(sets[i]) > PAGE_LINES
       THEN SimulatePages_Strict(sets, i + 1, num_pages + 1, SetLen(sets[i]))
       ELSE SimulatePages_Strict(sets, i + 1, num_pages, curr_lines + SetLen(sets[i]))

\* lines 80-87: the 20-line accumulation that estimates num_pages
RECURSIVE SimulatePages(_, _, _, _)
SimulatePages(sets, i, num_pages, curr_lines) ==
  IF i > Len(sets) THEN num_pages
  ELSE IF curr_lines + SetLen(sets[i]) >= PAGE_LINES
       THEN SimulatePages(sets, i + 1, num_pages + 1, SetLen(sets[i]))
       ELSE SimulatePages(sets, i + 1, num_pages, curr_lines + SetLen(sets[i]))

NumPages(sets) == SimulatePages(sets, 1, 1, 0)

\* line 94
SongsPerPage(sets) == (SumSongs(sets) + 1) \div NumPages(sets)

\* variant: the ceiling is tested on the group as it is, before the pull
RECURSIVE PullSets_CeilingBeforePull(_, _, _)
PullSets_CeilingBeforePull(sets, st, target) ==
  IF ~(target > st.curr_songs + BALANCE_SLACK) THEN st
  ELSE IF st.next >= Len(sets) THEN st
  ELSE IF SumSongs(st.ret[Len(st.ret)]) > GROUP_CEILING
       THEN st
  ELSE PullSets_CeilingBeforePull(sets,
                [ret |-> [st.ret EXCEPT ![Len(st.ret)] = Append(@, sets[st.next + 1])],
                 curr_songs |-> st.curr_songs + SetLen(sets[st.next + 1]),
                 next |-> st.next + 1],
                target)

\* variant: the inner loop without the 20-song ceiling check
RECURSIVE PullSets_NoCeiling(_, _, _)
PullSets_NoCeiling(sets, st, target) ==
  IF ~(target > st.curr_songs + BALANCE_SLACK) THEN st
  ELSE IF st.next >= Len(sets) THEN st
  ELSE PullSets_NoCeiling(sets,
                [ret |-> [st.ret EXCEPT ![Len(st.ret)] = Append(@, sets[st.next + 1])],
                 curr_songs |-> st.curr_songs + SetLen(sets[st.next + 1]),
                 next |-> st.next + 1],
                target)

\* lines 109-119: the inner while loop; st = [ret, curr_songs, next], next is
\* the 0-based index of the next unplaced set
RECURSIVE PullSets(_, _, _)
PullSets(sets, st, target) ==
  IF ~(target > st.curr_songs + BALANCE_SLACK) THEN st
  ELSE IF st.next >= Len(sets) THEN st
  ELSE IF SumSongs(st.ret[Len(st.ret)]) + SetLen(sets[st.next + 1]) > GROUP_CEILING
       THEN st
  ELSE PullSets(sets,
                [ret |-> [st.ret EXCEPT ![Len(st.ret)] = Append(@, sets[st.next + 1])],
                 curr_songs |-> st.curr_songs + SetLen(sets[st.next + 1]),
                 next |-> st.next + 1],
                target)

\* lines 104-107: a new group seeded with the next unplaced set
SeedGroup(sets, st) ==
  [ret |-> Append(st.ret, <<sets[st.next + 1]>>),
   curr_songs |-> st.curr_songs + SetLen(sets[st.next + 1]),
   next |-> st.next + 1]

\* variant: the per-page loop opens a group for every simulated page, also
\* when no set is left to seed it
RECURSIVE FillPages_EveryPage(_, _, _, _, _)
FillPages_EveryPage(sets, num_pages, songs_per_page, curr_page, st) ==
  IF curr_page > num_pages THEN st
  ELSE IF st.next >= Len(sets)
       THEN FillPages_EveryPage(sets, num_pages, songs_per_page, curr_page + 1,
                                [st EXCEPT !.ret = Append(@, <<>>)])
  ELSE FillPages_EveryPage(sets, num_pages, songs_per_page, curr_page + 1,
                 PullSets(sets, SeedGroup(sets, st), songs_per_page * curr_page))

\* lines 100-119: for curr_page in range(1, num_pages + 1)
RECURSIVE FillPages(_, _, _, _, _)
FillPages(sets, num_pages, songs_per_page, curr_page, st) ==
  IF curr_page > num_pages THEN st
  ELSE IF st.next >= Len(sets) THEN st
  ELSE FillPages(sets, num_pages, songs_per_page, curr_page + 1,
                 PullSets(sets, SeedGroup(sets, st), songs_per_page * curr_page))

\* variant: every left-over set opens a group of its own
RECURSIVE AbsorbRemainder_NewGroups(_, _, _, _)
AbsorbRemainder_NewGroups(sets, num_pages, ret, next) ==
  IF ~(next < Len(sets)) THEN ret
  ELSE AbsorbRemainder_NewGroups(sets, num_pages,
                                 Append(ret, <<sets[next + 1]>>), next + 1)

\* variant: the sets left over after the per-page loop are not absorbed
AbsorbRemainder_Drop(sets, num_pages, ret, next) == ret

\* lines 121-125: trailing-remainder absorption
RECURSIVE AbsorbRemainder(_, _, _, _)
AbsorbRemainder(sets, num_pages, ret, next) ==
  IF ~(next < Len(sets)) THEN ret
  ELSE LET r1 == IF Len(ret) < num_pages THEN Append(ret, <<>>) ELSE ret
       IN AbsorbRemainder(sets, num_pages,
                          [r1 EXCEPT ![Len(r1)] = Append(@, sets[next + 1])],
                          next + 1)

\* lines 96-119: the state after the per-page loop
AfterFill(sets) ==
  FillPages(sets, NumPages(sets), SongsPerPage(sets), 1,
            [ret |-> <<>>, curr_songs |-> 0, next |-> 0])

to_page_friendly_set_groupings(sets) ==
  IF NumPages(sets) = 1 THEN <<sets>>
  ELSE AbsorbRemainder(sets, NumPages(sets), AfterFill(sets).ret, AfterFill(sets).next)

\* variant: the layout decided by an independent song-count threshold
classify_layout_ByCount(sets) ==
  IF SumSongs(sets) >= PAGE_LINES THEN "SPREAD" ELSE "SINGLE"

\* lines 129-131
classify_layout(sets) ==
  IF Len(to_page_friendly_set_groupings(sets)) > 1 THEN "SPREAD" ELSE "SINGLE"

(* ---- the shows handed to the partitioner ---- *)
\* book/parse_shows.py builds every Set with one song (line 24) and appends
\* to it afterwards (line 28): a Set of classes.py has at least one song.
\* The last show of the input is kept whatever it holds (lines 60-61), so a
\* Show without sets can reach the partitioner.
SongCounts == 1..MaxSongs

CountSeqs == UNION {[1..n -> SongCounts] : n \in 0..MaxSets}

MkSets(c) == [i \in 1..Len(c) |-> NewSet(i, c[i])]

MkShow(notes, c) == [notes |-> notes, sets |-> MkSets(c)]

Init ==
  /\ show \in {MkShow(0, c) : c \in CountSeqs}
  /\ groupings = NotCalled
  /\ prev_groupings = NotCalled
  /\ layout = NotCalled
  /\ gen_layout = NotCalled
  /\ rendered = NotCalled
  /\ rows = <<>>
  /\ book_shows = NotCalled
  /\ gen_shows = NotCalled

\* variant: the call consumes the show's sets while it places them
CallGroupings_Consuming ==
  /\ groupings' = Returned(to_page_friendly_set_groupings(show.sets))
  /\ prev_groupings' = groupings
  /\ show' = [show EXCEPT !.sets = <<>>]
  /\ UNCHANGED <<layout, gen_layout, rendered, ingest_vars>>

\* a call of show.to_page_friendly_set_groupings(): the method reads
\* self.sets and the songs of each Set and assigns to neither
CallGroupings ==
  /\ groupings' = Returned(to_page_friendly_set_groupings(show.sets))
  /\ prev_groupings' = groupings
  /\ UNCHANGED <<show, layout, gen_layout, rendered, ingest_vars>>

\* a call of show.classify_layout()
CallClassifyLayout ==
  /\ layout' = Returned(classify_layout(show.sets))
  /\ UNCHANGED <<show, groupings, prev_groupings, gen_layout, rendered, ingest_vars>>

Next == CallGroupings \/ CallClassifyLayout

Spec == Init /\ [][Next]_vars

(* ---- long shows of a few set sizes handed to the partitioner ---- *)
\* an encore-sized set, a set just under and a set just over the page
LongSongCounts == {1, 19, 21}

LongCountSeqs == UNION {[1..n -> LongSongCounts] : n \in 1..MaxLongSets}

InitLong ==
  /\ show \in {MkShow(0, c) : c \in LongCountSeqs}
  /\ groupings = NotCalled
  /\ prev_groupings = NotCalled
  /\ layout = NotCalled
  /\ gen_layout = NotCalled
  /\ rendered = NotCalled
  /\ rows = <<>>
  /\ book_shows = NotCalled
  /\ gen_shows = NotCalled

SpecLong == InitLong /\ [][Next]_vars

(***************************************************************************)
(* generate.py: height estimator, metric classifier, greedy single split   *)
(***************************************************************************)
Max(a, b) == IF a >= b THEN a ELSE b

\* Set.estimate_height, lines 58-62
estimate_height(s) == SET_LABEL_HEIGHT + Len(s.songs) * LINE_HEIGHT

\* Show.estimate_header_height, lines 104-111; sh.notes is len(self.notes),
\* 0 for None and for the empty string (both falsy)
estimate_header_height(sh) ==
  IF sh.notes > 0
  THEN HEADER_HEIGHT + NOTES_BASE_HEIGHT
         + (Max(1, sh.notes \div NOTES_CHARS_PER_LINE + 1) - 1) * LINE_HEIGHT
  ELSE HEADER_HEIGHT

\* lines 116-119: the loop over enumerate(self.sets), i is 1-based here
RECURSIVE AddSetHeights(_, _, _)
AddSetHeights(sets, i, height) ==
  IF i > Len(sets) THEN height
  ELSE AddSetHeights(sets, i + 1,
                     height + estimate_height(sets[i])
                       + (IF i - 1 < Len(sets) - 1 THEN SET_GAP ELSE 0))

\* Show.estimate_total_height, lines 113-120
estimate_total_height(sh) == AddSetHeights(sh.sets, 1, estimate_header_height(sh))

\* variant: the single-page threshold at 95% of the budget
generate_classify_layout_Loose(sh) ==
  IF estimate_total_height(sh) * 100 <= PAGE_CONTENT_HEIGHT * 95 THEN "SINGLE"
  ELSE IF estimate_total_height(sh) * 100 <= PAGE_CONTENT_HEIGHT * 108 THEN "COMPACT"
  ELSE "SPREAD"

\* generate.Show.classify_layout, lines 122-136.  The heights are integers
\* and 500 * 0.92 = 460.0, 500 * 1.08 = 540.0 exactly in binary floating
\* point, so the comparisons are the integer comparisons below.
generate_classify_layout(sh) ==
  IF estimate_total_height(sh) * 100 <= PAGE_CONTENT_HEIGHT * 92 THEN "SINGLE"
  ELSE IF estimate_total_height(sh) * 100 <= PAGE_CONTENT_HEIGHT * 108 THEN "COMPACT"
  ELSE "SPREAD"

\* variant: the first page is filled up to 110% of the budget
RECURSIVE GreedySplit_OverBudget(_, _, _, _)
GreedySplit_OverBudget(sets, i, cumulative_height, split_after) ==
  IF i > Len(sets) THEN split_after
  ELSE LET set_height == estimate_height(sets[i]) + (IF i - 1 > 0 THEN SET_GAP ELSE 0)
       IN IF (cumulative_height + set_height) * 100 <= PAGE_CONTENT_HEIGHT * 110
          THEN GreedySplit_OverBudget(sets, i + 1, cumulative_height + set_height, i)
          ELSE split_after

\* variant: a set that does not fit is skipped and the scan goes on
RECURSIVE GreedySplit_NoBreak(_, _, _, _)
GreedySplit_NoBreak(sets, i, cumulative_height, split_after) ==
  IF i > Len(sets) THEN split_after
  ELSE LET set_height == estimate_height(sets[i]) + (IF i - 1 > 0 THEN SET_GAP ELSE 0)
       IN IF (cumulative_height + set_height) * 100 <= PAGE_CONTENT_HEIGHT * 95
          THEN GreedySplit_NoBreak(sets, i + 1, cumulative_height + set_height, i)
          ELSE GreedySplit_NoBreak(sets, i + 1, cumulative_height, split_after)

\* lines 153-165: the greedy accumulation; i is 1-based, so split_after = i
\* where the code assigns i + 1.  500 * 0.95 = 475.0 exactly.
RECURSIVE GreedySplit(_, _, _, _)
GreedySplit(sets, i, cumulative_height, split_after) ==
  IF i > Len(sets) THEN split_after
  ELSE LET set_height == estimate_height(sets[i]) + (IF i - 1 > 0 THEN SET_GAP ELSE 0)
       IN IF (cumulative_height + set_height) * 100 <= PAGE_CONTENT_HEIGHT * 95
          THEN GreedySplit(sets, i + 1, cumulative_height + set_height, i)
          ELSE split_after

\* lines 167-171: the two clamps
ClampSplit(n, split_after) ==
  LET s1 == IF split_after = 0 THEN 1 ELSE split_after
  IN IF s1 >= n THEN n - 1 ELSE s1

\* Show.find_split_point, lines 138-173
find_split_point(sh) ==
  IF Len(sh.sets) <= 1 THEN 1
  ELSE ClampSplit(Len(sh.sets),
                  GreedySplit(sh.sets, 1, estimate_header_height(sh), 0))

\* Python slices sets[:k] and sets[k:] for k >= 0
SliceTo(sets, k) == SubSeq(sets, 1, IF k < Len(sets) THEN k ELSE Len(sets))

SliceFrom(sets, k) == SubSeq(sets, (IF k < Len(sets) THEN k ELSE Len(sets)) + 1, Len(sets))

\* render_show_spread, lines 318-355: one article per page, the first with
\* the full header, the second with the continued header
render_show_spread(sh) ==
  <<[header |-> "full", sets |-> SliceTo(sh.sets, find_split_point(sh))],
    [header |-> "continued", sets |-> SliceFrom(sh.sets, find_split_point(sh))]>>

\* render_show_single, lines 301-315
render_show_single(sh, layout_type) ==
  <<[header |-> "full", sets |-> sh.sets]>>

\* render_show_html, lines 358-365
render_show_html(sh) ==
  [layout |-> generate_classify_layout(sh),
   pages |-> IF generate_classify_layout(sh) = "SPREAD"
             THEN render_show_spread(sh)
             ELSE render_show_single(sh, generate_classify_layout(sh))]

(* ---- the shows handed to the renderer ---- *)
\* generate.parse_shows may build a Set without songs (line 201) but keeps a
\* show only when it has at least one song (lines 212 and 228).
GenCountSeqs ==
  {c \in UNION {[1..n -> 0..MaxSetSongs] : n \in 1..MaxSets} :
     /\ SumSongs(MkSets(c)) >= 1
     /\ SumSongs(MkSets(c)) <= MaxShowSongs}

\* lengths of the notes: none, and one short of and exactly k full lines
NotesLens ==
  {0} \cup {k * NOTES_CHARS_PER_LINE - 1 : k \in 1..MaxNoteLines}
      \cup {k * NOTES_CHARS_PER_LINE : k \in 1..MaxNoteLines}

InitGen ==
  /\ show \in {MkShow(n, c) : n \in NotesLens, c \in GenCountSeqs}
  /\ groupings = NotCalled
  /\ prev_groupings = NotCalled
  /\ layout = NotCalled
  /\ gen_layout = NotCalled
  /\ rendered = NotCalled
  /\ rows = <<>>
  /\ book_shows = NotCalled
  /\ gen_shows = NotCalled

\* generate_book's layout statistics: show.classify_layout()
CallGenerateClassifyLayout ==
  /\ gen_layout' = Returned(generate_classify_layout(show))
  /\ UNCHANGED <<show, groupings, prev_groupings, layout, rendered, ingest_vars>>

\* generate_book's content loop: render_show_html(show)
CallRenderShowHtml ==
  /\ rendered' = Returned(render_show_html(show))
  /\ UNCHANGED <<show, groupings, prev_groupings, layout, gen_layout, ingest_vars>>

NextGen == CallGenerateClassifyLayout \/ CallRenderShowHtml

SpecGen == InitGen /\ [][NextGen]_vars

(***************************************************************************)
(* Ingestion: parse_shows.shows_from_lines and generate.parse_shows        *)
(*                                                                         *)
(* A cell is a string, modelled as the sequence of its characters.  A row  *)
(* is a record [n, c0, c1, c2]: n is the number of cells, c0..c2 are the   *)
(* first three cells (the empty string where the row is shorter).  A       *)
(* header row holds date, band, venue, ...; a song row holds a set label   *)
(* and a song.  The cells after the third of a header row (venue2, city,   *)
(* region, notes) are copied to the Show and take no part in building the  *)
(* sets; they are empty in the rows of the model.                          *)
(***************************************************************************)
ELECTRIC == <<"(", "e", "l", "e", "c", "t", "r", "i", "c", ")">>

ACOUSTIC == <<"(", "a", "c", "o", "u", "s", "t", "i", "c", ")">>

\* annotation = None
None == <<"None">>

\* str.startswith
StartsWith(s, p) == Len(s) >= Len(p) /\ SubSeq(s, 1, Len(p)) = p

\* str.index(ch) of a string that holds ch, 0-based
IndexOf(s, ch) ==
  CHOOSE i \in 0..(Len(s) - 1) :
    s[i + 1] = ch /\ \A j \in 0..(i - 1) : s[j + 1] # ch

\* parse_shows.py lines 20-23, generate.py lines 196-199: the annotation
\* song[1:paren_idx] and the rest song[paren_idx + 2:]
SplitAnnotation(song) ==
  IF StartsWith(song, ELECTRIC) \/ StartsWith(song, ACOUSTIC)
  THEN [annotation |-> SubSeq(song, 2, IndexOf(song, ")")),
        song |-> SliceFrom(song, IndexOf(song, ")") + 2)]
  ELSE [annotation |-> None, song |-> song]

\* parse_shows.py lines 18-24: the label cell loses its last character
BookNewSet(label_cell, song_cell) ==
  [label |-> IF label_cell # <<>>
             THEN SubSeq(label_cell, 1, Len(label_cell) - 1)
             ELSE <<"I">>,
   annotation |-> SplitAnnotation(song_cell).annotation,
   songs |-> <<SplitAnnotation(song_cell).song>>]

\* generate.py lines 193-201
GenNewSet(label_cell, song_cell) ==
  [label |-> IF label_cell # <<>> THEN label_cell ELSE <<"I">>,
   annotation |-> SplitAnnotation(song_cell).annotation,
   songs |-> IF SplitAnnotation(song_cell).song # <<>>
             THEN <<SplitAnnotation(song_cell).song>>
             ELSE <<>>]

\* sets[-1].songs.append(song)
AppendSong(sets, song) == [sets EXCEPT ![Len(sets)].songs = Append(@, song)]

\* a Show fresh from its header row
NewShow(date) == [date |-> date, sets |-> <<>>]

\* the parser at the start of the loop: no shows, current_show = None
ParseStart ==
  [status |-> "ok", shows |-> <<>>, has_cur |-> FALSE, cur |-> NewShow(<<>>)]

\* parse_shows.py lines 11-58: one iteration of the loop over the rows.
\* row[2] raises IndexError on a row of fewer than three cells, the
\* unpacking of line 40 raises ValueError on a header row of other than
\* seven cells.
BookRow(st, row) ==
  IF st.status = "raised" THEN st
  ELSE IF row.n < 3 THEN [st EXCEPT !.status = "raised"]
  ELSE IF row.c2 = <<>> /\ st.has_cur
       THEN IF row.c0 # <<>> \/ Len(st.cur.sets) = 0
            THEN [st EXCEPT !.cur.sets = Append(@, BookNewSet(row.c0, row.c1))]
            ELSE [st EXCEPT !.cur.sets = AppendSong(@, row.c1)]
  ELSE IF row.c2 = <<>> THEN st
  ELSE IF row.n # 7 THEN [st EXCEPT !.status = "raised"]
  ELSE [st EXCEPT !.shows = IF st.has_cur /\ ShowLen(st.cur) > 0
                            THEN Append(@, st.cur) ELSE @,
                  !.has_cur = TRUE,
                  !.cur = NewShow(row.c0)]

RECURSIVE BookRows(_, _, _)
BookRows(data, i, st) ==
  IF i > Len(data) THEN st ELSE BookRows(data, i + 1, BookRow(st, data[i]))

\* parse_shows.py lines 60-62: the last show is appended as it is
BookFinish(st) == IF st.has_cur THEN Append(st.shows, st.cur) ELSE st.shows

\* parse_shows.py lines 64-69: the dict from date to the shows of that date
GroupByDate(shows) ==
  [d \in {shows[i].date : i \in 1..Len(shows)} |->
     SelectSeq(shows, LAMBDA sh : sh.date = d)]

\* parse_shows.shows_from_lines
shows_from_lines(data) ==
  IF BookRows(data, 1, ParseStart).status = "raised"
  THEN [status |-> "raised"]
  ELSE Returned(GroupByDate(BookFinish(BookRows(data, 1, ParseStart))))

\* generate.py lines 185-226: one iteration of the loop over the rows
GenRow(st, row) ==
  IF row.n = 0 THEN st
  ELSE IF row.n < 3 /\ st.has_cur
       THEN LET song == IF row.n > 1 THEN row.c1 ELSE <<>>
            IN IF row.c0 # <<>> \/ Len(st.cur.sets) = 0
               THEN [st EXCEPT !.cur.sets = Append(@, GenNewSet(row.c0, song))]
               ELSE IF song # <<>>
                    THEN [st EXCEPT !.cur.sets = AppendSong(@, song)]
                    ELSE st
  ELSE IF row.n < 3 THEN st
  ELSE [st EXCEPT !.shows = IF st.has_cur /\ ShowLen(st.cur) > 0
                            THEN Append(@, st.cur) ELSE @,
                  !.has_cur = TRUE,
                  !.cur = NewShow(row.c0)]

RECURSIVE GenRows(_, _, _)
GenRows(data, i, st) ==
  IF i > Len(data) THEN st ELSE GenRows(data, i + 1, GenRow(st, data[i]))

\* generate.py lines 228-231
GenFinish(st) ==
  IF st.has_cur /\ ShowLen(st.cur) > 0 THEN Append(st.shows, st.cur) ELSE st.shows

\* generate.parse_shows, on the rows read from the file
parse_shows(data) == Returned(GenFinish(GenRows(data, 1, ParseStart)))

(* ---- the rows handed to the parsers ---- *)
\* set-label cells: empty, one character, a number with its colon
LabelCells == {<<>>, <<"E">>, <<"1", ":">>}

\* song cells: empty, a song, an annotated song
SongCells == {<<>>, <<"S">>, ACOUSTIC \o <<" ", "S">>}

DateCells == {<<"7", "2", "/", "5", "/", "3">>, <<"7", "2", "/", "5", "/", "4">>}

Row(n, c0, c1, c2) == [n |-> n, c0 |-> c0, c1 |-> c1, c2 |-> c2]

\* header rows, song rows padded to seven cells (the format shows_from_lines
\* reads), song rows of two cells and of one cell (the format
\* generate.parse_shows reads), and the empty row
Rows ==
  {Row(7, d, <<"G", "D">>, <<"V">>) : d \in DateCells}
    \cup {Row(7, l, sg, <<>>) : l \in LabelCells, sg \in SongCells}
    \cup {Row(2, l, sg, <<>>) : l \in LabelCells, sg \in SongCells}
    \cup {Row(1, l, <<>>, <<>>) : l \in LabelCells}
    \cup {Row(0, <<>>, <<>>, <<>>)}

RowSeqs == UNION {[1..n -> Rows] : n \in 0..MaxRows}

InitIngest ==
  /\ rows \in RowSeqs
  /\ show = MkShow(0, <<>>)
  /\ groupings = NotCalled
  /\ prev_groupings = NotCalled
  /\ layout = NotCalled
  /\ gen_layout = NotCalled
  /\ rendered = NotCalled
  /\ book_shows = NotCalled
  /\ gen_shows = NotCalled

\* a call of parse_shows.shows_from_lines(rows)
CallShowsFromLines ==
  /\ book_shows' = shows_from_lines(rows)
  /\ UNCHANGED <<show, groupings, prev_groupings, layout, gen_layout, rendered,
                 rows, gen_shows>>

\* a call of generate.parse_shows on a file holding rows
CallParseShows ==
  /\ gen_shows' = parse_shows(rows)
  /\ UNCHANGED <<show, groupings, prev_groupings, layout, gen_layout, rendered,
                 rows, book_shows>>

NextIngest == CallShowsFromLines \/ CallParseShows

SpecIngest == InitIngest /\ [][NextIngest]_vars

(***************************************************************************)
(* Properties of the count-based partitioner (classes.py)                  *)
(***************************************************************************)
RECURSIVE Flatten(_)
Flatten(groups) ==
  IF groups = <<>> THEN <<>> ELSE Head(groups) \o Flatten(Tail(groups))

GroupingsReturned == groupings.status = "returned"

LayoutReturned == layout.status = "returned"

SizesOf(sets) == [i \in 1..Len(sets) |-> SetLen(sets[i])]

\* C1 (coverage and atomicity): the groups returned by
\* to_page_friendly_set_groupings, concatenated in order, are exactly the
\* show's sets: every Set whole, once, in the original order.
C1_Coverage ==
  GroupingsReturned => Flatten(groupings.value) = show.sets

\* a three-set show split into two groups, the second holding two sets
C1_Witness ==
  /\ GroupingsReturned
  /\ Len(show.sets) = 3
  /\ Len(groupings.value) = 2
  /\ Len(groupings.value[2]) = 2

\* C2 (balance bound, as claimed): no returned group has more than 20 songs
\* unless it is a single Set that alone has more than 20 songs.
C2_BalanceBound ==
  GroupingsReturned =>
    \A i \in 1..Len(groupings.value) :
      SumSongs(groupings.value[i]) > GROUP_CEILING =>
        /\ Len(groupings.value[i]) = 1
        /\ SetLen(groupings.value[i][1]) > GROUP_CEILING

\* C3 (classification consistency): classify_layout answers SPREAD exactly
\* when the partitioner returns more than one group, SINGLE exactly when it
\* returns one group.
C3_ClassificationConsistency ==
  (GroupingsReturned /\ LayoutReturned) =>
    /\ layout.value = "SPREAD" <=> Len(groupings.value) > 1
    /\ layout.value = "SINGLE" <=> Len(groupings.value) = 1

\* both operations have run on a show that is split
C3_Witness ==
  /\ GroupingsReturned
  /\ LayoutReturned
  /\ Len(groupings.value) > 1
  /\ layout.value = "SPREAD"

\* C4 (rejection of zero-set shows, as claimed): neither operation returns
\* a value for a show with zero sets.
C4_RejectsZeroSets ==
  Len(show.sets) = 0 => (~GroupingsReturned /\ ~LayoutReturned)

\* C5 (no empty groups, as claimed): every returned group holds at least
\* one Set.
C5_NoEmptyGroups ==
  GroupingsReturned =>
    \A i \in 1..Len(groupings.value) : Len(groupings.value[i]) >= 1

\* C6 (monotonic degeneracy): a show with exactly one Set yields exactly one
\* group holding that Set, whatever its song count.
C6_SingleSetSingleGroup ==
  (GroupingsReturned /\ Len(show.sets) = 1) => groupings.value = <<show.sets>>

\* a lone set of 20 or more songs (the simulation counts two pages) was
\* partitioned
C6_Witness ==
  /\ GroupingsReturned
  /\ Len(show.sets) = 1
  /\ SetLen(show.sets[1]) >= PAGE_LINES
  /\ NumPages(show.sets) = 2

\* the shows C9 is about: sizes [a, b, 1]
C9_Pre ==
  /\ Len(show.sets) = 3
  /\ LET a == SetLen(show.sets[1])
         b == SetLen(show.sets[2])
     IN /\ SetLen(show.sets[3]) = 1
        /\ 1 <= a /\ a <= 19
        /\ 1 <= b /\ b <= 18
        /\ a + b >= 19
        /\ (a >= 6 \/ a + b >= 21)

\* C9 (three sets with a one-song encore): the first set is alone in the
\* first group, the second set and the encore form the second group.
C9_EncoreJoinsSecondSet ==
  (GroupingsReturned /\ C9_Pre) =>
    groupings.value = <<<<show.sets[1]>>, <<show.sets[2], show.sets[3]>>>>

\* the show of 1970-05-14: sizes [5, 18, 1]
C9_Witness ==
  /\ GroupingsReturned
  /\ C9_Pre
  /\ SizesOf(show.sets) = <<5, 18, 1>>

\* the shows C10 is about: two non-empty sets, at least 21 songs in all
C10_Pre ==
  /\ Len(show.sets) = 2
  /\ SetLen(show.sets[1]) >= 1
  /\ SetLen(show.sets[2]) >= 1
  /\ SumSongs(show.sets) >= 21

\* C10 (two sets over the line threshold): two groups of one set each, in
\* the original order, and the layout is SPREAD.
C10_TwoSetsTwoGroups ==
  C10_Pre =>
    /\ GroupingsReturned => groupings.value = <<<<show.sets[1]>>, <<show.sets[2]>>>>
    /\ LayoutReturned => layout.value = "SPREAD"

\* the show of 1976-10-10 (sizes [12, 10]) partitioned and classified
C10_Witness ==
  /\ C10_Pre
  /\ GroupingsReturned
  /\ LayoutReturned
  /\ SizesOf(show.sets) = <<12, 10>>

(***************************************************************************)
(* Properties of the greedy single split (generate.py)                     *)
(***************************************************************************)
Rendered == rendered.status = "returned"

RenderedSpread == Rendered /\ rendered.value.layout = "SPREAD"

\* estimated height of a run of sets with the gaps between them
RECURSIVE SetsHeight(_)
SetsHeight(sets) ==
  IF sets = <<>> THEN 0
  ELSE estimate_height(Head(sets))
         + (IF Tail(sets) = <<>> THEN 0 ELSE SET_GAP + SetsHeight(Tail(sets)))

PageOneHeight == estimate_header_height(show) + SetsHeight(rendered.value.pages[1].sets)

PageTwoHeight == SetsHeight(rendered.value.pages[2].sets)

\* C7 (a SPREAD always has two non-empty pages, as claimed): for a show
\* rendered as a spread the split lies in 1..len(sets)-1 and both page blocks
\* hold at least one set.
C7_SpreadHasTwoNonEmptyPages ==
  RenderedSpread =>
    /\ 1 <= find_split_point(show)
    /\ find_split_point(show) <= Len(show.sets) - 1
    /\ Len(rendered.value.pages[1].sets) >= 1
    /\ Len(rendered.value.pages[2].sets) >= 1

\* C8 (no page overflows, as claimed): both pages of a spread have an
\* estimated height of at most PAGE_CONTENT_HEIGHT.
C8_NoPageOverflow ==
  RenderedSpread =>
    /\ PageOneHeight <= PAGE_CONTENT_HEIGHT
    /\ PageTwoHeight <= PAGE_CONTENT_HEIGHT

\* C8 (amended): the first page of a spread is within PAGE_CONTENT_HEIGHT
\* whenever it holds two or more sets; a first page of one set, and the
\* second page, are not bounded.
C8_MultiSetFirstPageFits ==
  (RenderedSpread /\ Len(rendered.value.pages[1].sets) >= 2) =>
    PageOneHeight <= PAGE_CONTENT_HEIGHT

\* a spread whose first page holds two sets and is filled to more than 90%
\* of the budget
C8_Witness ==
  /\ RenderedSpread
  /\ Len(rendered.value.pages[1].sets) = 2
  /\ Len(rendered.value.pages[2].sets) = 1
  /\ PageOneHeight * 100 > PAGE_CONTENT_HEIGHT * 90

(***************************************************************************)
(* Further properties of the count-based partitioner (classes.py)          *)
(***************************************************************************)
PrevGroupingsReturned == prev_groupings.status = "returned"

CeilDiv(a, b) == (a + b - 1) \div b

\* C16 (target songs per page, as claimed): with num_pages >= 2 the target
\* computed by the call is the total song count divided by num_pages,
\* rounded up.
C16_SongsPerPageIsCeiling ==
  (GroupingsReturned /\ NumPages(show.sets) >= 2) =>
    SongsPerPage(show.sets) = CeilDiv(SumSongs(show.sets), NumPages(show.sets))

\* C19 (group count within the estimate): the call returns at most num_pages
\* groups, and sets are left over after the per-page loop only when that loop
\* has opened num_pages groups, so absorption never opens a group.
C19_GroupsWithinNumPages ==
  GroupingsReturned =>
    /\ Len(groupings.value) <= NumPages(show.sets)
    /\ (NumPages(show.sets) >= 2 /\ AfterFill(show.sets).next < Len(show.sets)) =>
         /\ Len(AfterFill(show.sets).ret) = NumPages(show.sets)
         /\ Len(groupings.value) = NumPages(show.sets)

\* a call in which sets were left over and absorbed
C19_Witness ==
  /\ GroupingsReturned
  /\ NumPages(show.sets) >= 2
  /\ AfterFill(show.sets).next < Len(show.sets)

\* C20 (ceiling of the groups before the last): with num_pages >= 2 every
\* returned group other than the last has at most 20 songs unless it is a
\* single Set.
C20_OnlyLastGroupOverCeiling ==
  (GroupingsReturned /\ NumPages(show.sets) >= 2) =>
    \A i \in 1..(Len(groupings.value) - 1) :
      SumSongs(groupings.value[i]) > GROUP_CEILING => Len(groupings.value[i]) = 1

\* a grouping whose first group is within the ceiling and whose last group
\* was pushed over it by absorption
C20_Witness ==
  /\ GroupingsReturned
  /\ Len(groupings.value) >= 2
  /\ SumSongs(groupings.value[1]) <= GROUP_CEILING
  /\ Len(groupings.value[Len(groupings.value)]) >= 2
  /\ SumSongs(groupings.value[Len(groupings.value)]) > GROUP_CEILING

(***************************************************************************)
(* Further properties of the metric estimator and classifier (generate.py) *)
(***************************************************************************)
GenLayoutReturned == gen_layout.status = "returned"

\* C12 (metric classifier): SINGLE exactly when the estimated total height
\* is at most 460, COMPACT exactly when it is above 460 and at most 540,
\* SPREAD exactly when it is above 540.
C12_ClassifierThresholds ==
  GenLayoutReturned =>
    LET H == estimate_total_height(show)
    IN /\ gen_layout.value = "SINGLE" <=> H <= 460
       /\ gen_layout.value = "COMPACT" <=> (460 < H /\ H <= 540)
       /\ gen_layout.value = "SPREAD" <=> H > 540

\* a show classified COMPACT
C12_Witness ==
  /\ GenLayoutReturned
  /\ gen_layout.value = "COMPACT"
  /\ estimate_total_height(show) > 460

\* C17 (notes lines, as claimed): with notes of length L >= 1 the header
\* height is HEADER_HEIGHT + NOTES_BASE_HEIGHT + (ceil(L / 55) - 1) *
\* LINE_HEIGHT, without notes it is HEADER_HEIGHT.
C17_NotesLinesRoundedUp ==
  GenLayoutReturned =>
    estimate_header_height(show) =
      IF show.notes >= 1
      THEN HEADER_HEIGHT + NOTES_BASE_HEIGHT
             + (CeilDiv(show.notes, NOTES_CHARS_PER_LINE) - 1) * LINE_HEIGHT
      ELSE HEADER_HEIGHT

Abs(n) == IF n >= 0 THEN n ELSE 0 - n

\* C18 (group count close to the estimate, as claimed): for a show whose
\* sets are all non-empty the number of returned groups differs from
\* num_pages by at most one.
C18_GroupCountNearNumPages ==
  (GroupingsReturned /\ \A i \in 1..Len(show.sets) : SetLen(show.sets[i]) >= 1) =>
    Abs(Len(groupings.value) - NumPages(show.sets)) <= 1

(***************************************************************************)
(* Properties of the ingestion                                             *)
(***************************************************************************)
\* the shows in the dict returned by shows_from_lines
BookShowsOut ==
  IF book_shows.status = "returned"
  THEN UNION {{book_shows.value[d][i] : i \in 1..Len(book_shows.value[d])} :
                d \in DOMAIN book_shows.value}
  ELSE {}

\* the shows in the list returned by generate.parse_shows
GenShowsOut ==
  IF gen_shows.status = "returned"
  THEN {gen_shows.value[i] : i \in 1..Len(gen_shows.value)}
  ELSE {}

SetsOf(sh) == {sh.sets[i] : i \in 1..Len(sh.sets)}

\* C13 (song-less shows are dropped, as claimed): every Show returned by
\* either parser has at least one song.
C13_NoSonglessShow ==
  \A sh \in BookShowsOut \cup GenShowsOut : ShowLen(sh) >= 1

\* C14 (set labels, as claimed): every Set built by either parser has a
\* non-empty label.
C14_LabelNeverEmpty ==
  \A sh \in BookShowsOut \cup GenShowsOut : \A st \in SetsOf(sh) : st.label # <<>>

\* C15 (no Set without songs, as claimed): every Set of every Show returned
\* by either parser has at least one song.
C15_NoEmptySet ==
  \A sh \in BookShowsOut \cup GenShowsOut : \A st \in SetsOf(sh) : Len(st.songs) >= 1

(***************************************************************************)
(* Further properties of the greedy single split (generate.py)             *)
(***************************************************************************)
\* the split index of find_split_point before the two clamps
UnclampedSplit == GreedySplit(show.sets, 1, estimate_header_height(show), 0)

\* C21 (the greedy split of a spread): for a show rendered as a spread with
\* at least two sets, the accumulation stops before the last set, so the
\* upper clamp leaves the index as it is; the first page is at most 475 high
\* unless the header and the first set alone exceed 475, and then the split
\* is 1.
C21_GreedySplitOfSpread ==
  (RenderedSpread /\ Len(show.sets) >= 2) =>
    /\ UnclampedSplit <= Len(show.sets) - 1
    /\ find_split_point(show) = (IF UnclampedSplit = 0 THEN 1 ELSE UnclampedSplit)
    /\ Len(rendered.value.pages[1].sets) = find_split_point(show)
    /\ IF estimate_header_height(show) + estimate_height(show.sets[1]) > 475
       THEN find_split_point(show) = 1
       ELSE PageOneHeight <= 475

\* a spread of three sets whose accumulation stopped right before the last
C21_Witness ==
  /\ RenderedSpread
  /\ Len(show.sets) = 3
  /\ UnclampedSplit = Len(show.sets) - 1
  /\ PageOneHeight <= 475

====
